---- MODULE Spec2Model ----
(***************************************************************************)
(* Model of the gcd crate (src/src/lib.rs): three GCD algorithms, the      *)
(* dispatcher gcd_with_algorithm, the cross-check gcd, the sieve of        *)
(* Eratosthenes, occurrences and prime_factors.                            *)
(*                                                                         *)
(* The machine word is scaled from 64 bits to Width bits: i64 is the       *)
(* range I64Min..I64Max and "as u64" / "as i64" are reductions modulo      *)
(* 2^Width.  Arithmetic overflow on i64 depends on the build: a debug      *)
(* build panics, a release build wraps; the build is chosen in Init.       *)
(* The u64 arithmetic of the sieve and of the factorisation works on       *)
(* values that index an allocated vector, far below the word size, so it   *)
(* is modelled on naturals bounded by MaxN; memory is taken as unbounded.  *)
(***************************************************************************)
EXTENDS Integers, Sequences, FiniteSets, TLC

VARIABLES build, pc, call, ret, dispatched

vars == <<build, pc, call, ret, dispatched>>

\* ---------------------------------------------------------------- bounds
Width == 6
MaxN == 60

\* ------------------------------------------------------- machine integers
Modulus == 2 ^ Width
I64Min == -(2 ^ (Width - 1))
I64Max == (2 ^ (Width - 1)) - 1
I64 == I64Min .. I64Max
U64 == 0 .. MaxN

Builds == {"debug", "release"}

\* x as i64: two's complement reinterpretation
AsI64(x) == ((x - I64Min) % Modulus) + I64Min

\* x as u64: two's complement reinterpretation
AsU64(x) == x % Modulus

Magnitude(x) == IF x < 0 THEN -x ELSE x

\* Rust's integer division truncates toward zero
TruncDiv(x, y) ==
    IF (x >= 0) = (y > 0)
    THEN Magnitude(x) \div Magnitude(y)
    ELSE -(Magnitude(x) \div Magnitude(y))

Min(x, y) == IF x < y THEN x ELSE y
Max(x, y) == IF x > y THEN x ELSE y

\* --------------------------------------------------------------- results
Ok(v) == [tag |-> "Ok", val |-> v, seq |-> <<>>]
OkSeq(s) == [tag |-> "Ok", val |-> 0, seq |-> s]
ErrUndefined == [tag |-> "Undefined", val |-> 0, seq |-> <<>>]
ErrMismatch == [tag |-> "Mismatch", val |-> 0, seq |-> <<>>]
Panic == [tag |-> "Panic", val |-> 0, seq |-> <<>>]
Diverge == [tag |-> "Diverge", val |-> 0, seq |-> <<>>]
NoRet == [tag |-> "None", val |-> 0, seq |-> <<>>]

GcdAlgorithms == {"Euclid", "Middle", "Consecutive"}

\* ---------------------------------------------------------- euclid_gcd
\* one iteration of the while loop overflows an i64 intermediate
EuclidStepOverflows(st, q) ==
    \/ q * st.r1 \notin I64
    \/ st.r2 - q * st.r1 \notin I64
    \/ q * st.s1 \notin I64
    \/ st.s2 - AsI64(q * st.s1) \notin I64
    \/ q * st.t1 \notin I64
    \/ st.t2 - AsI64(q * st.t1) \notin I64

RECURSIVE EuclidLoop(_)
EuclidLoop(st) ==
    IF st.r1 = 0
    THEN Ok(AsU64(st.r2))
    ELSE IF st.r2 = I64Min /\ st.r1 = -1
    THEN Panic
    ELSE LET q == TruncDiv(st.r2, st.r1)
         IN  IF build = "debug" /\ EuclidStepOverflows(st, q)
             THEN Panic
             ELSE EuclidLoop([r2 |-> st.r1, r1 |-> AsI64(st.r2 - q * st.r1),
                              s2 |-> st.s1, s1 |-> AsI64(st.s2 - q * st.s1),
                              t2 |-> st.t1, t1 |-> AsI64(st.t2 - q * st.t1)])

euclid_gcd(a, b) ==
    EuclidLoop([s1 |-> 0, t1 |-> 1, r1 |-> b, s2 |-> 1, t2 |-> 0, r2 |-> a])

\* ------------------------------------------------------ consecutive_gcd
RECURSIVE ConsecutiveLoop(_, _, _)
ConsecutiveLoop(a, b, t) ==
    IF t = 0
    THEN Panic
    ELSE IF a % t = 0 /\ b % t = 0
    THEN Ok(t)
    ELSE ConsecutiveLoop(a, b, t - 1)

consecutive_gcd(a, b) == ConsecutiveLoop(a, b, Min(a, b))

\* ---------------------------------------------------------- prime_sieve
\* f64::sqrt(n as f64).floor() as u64
ISqrt(n) == CHOOSE k \in 0 .. n : k * k <= n /\ (k + 1) * (k + 1) > n

\* the inner while loop: zero every multiple of prime from step up to n
RECURSIVE MarkMultiples(_, _, _, _)
MarkMultiples(primes, n, prime, step) ==
    IF step <= n
    THEN MarkMultiples([primes EXCEPT ![step] = 0], n, prime, step + prime)
    ELSE primes

\* variant: the sweep starts one multiple after the square
FirstStepPastSquare(prime) == prime * prime + prime

\* the first multiple of prime that the sweep disqualifies
FirstStep(prime) == prime * prime

\* the for loop over prime in 2..=last
RECURSIVE SieveLoop(_, _, _, _)
SieveLoop(primes, n, prime, last) ==
    IF prime > last
    THEN primes
    ELSE SieveLoop(IF primes[prime] # 0
                   THEN MarkMultiples(primes, n, prime, FirstStep(prime))
                   ELSE primes,
                   n, prime + 1, last)

\* the filter_map that keeps the non-zero slots, in index order
RECURSIVE FilterNonZero(_, _, _)
FilterNonZero(primes, i, last) ==
    IF i > last
    THEN <<>>
    ELSE (IF primes[i] # 0 THEN <<primes[i]>> ELSE <<>>)
         \o FilterNonZero(primes, i + 1, last)

\* [0, 0] chained with 2..=n, indexed from 0
SieveInit(n) == [i \in 0 .. Max(n, 1) |-> IF i < 2 THEN 0 ELSE i]

prime_sieve(n) ==
    FilterNonZero(SieveLoop(SieveInit(n), n, 2, ISqrt(n)), 0, Max(n, 1))

\* ---------------------------------------------------------- occurrences
\* the while loop; it makes no progress when leftovers / prime = leftovers
RECURSIVE OccurrencesLoop(_, _, _)
OccurrencesLoop(leftovers, prime, count) ==
    IF leftovers % prime # 0
    THEN Ok(count)
    ELSE IF leftovers \div prime = leftovers
    THEN Diverge
    ELSE OccurrencesLoop(leftovers \div prime, prime, count + 1)

\* variant: the count starts at zero instead of one
occurrencesFromZero(n, prime) ==
    IF prime = 0
    THEN Panic
    ELSE IF n % prime # 0
    THEN Panic
    ELSE OccurrencesLoop(n \div prime, prime, 0)

\* variant: the check that prime is a factor of n is missing
occurrencesUnchecked(n, prime) ==
    IF prime = 0
    THEN Panic
    ELSE OccurrencesLoop(n \div prime, prime, 1)

occurrences(n, prime) ==
    IF prime = 0
    THEN Panic
    ELSE IF n % prime # 0
    THEN Panic
    ELSE OccurrencesLoop(n \div prime, prime, 1)

\* -------------------------------------------------------- prime_factors
RECURSIVE FactorsLoop(_, _, _, _)
FactorsLoop(n, sieve, i, acc) ==
    IF i > Len(sieve)
    THEN OkSeq(acc)
    ELSE IF n % sieve[i] = 0
    THEN LET o == occurrences(n, sieve[i])
         IN  IF o.tag # "Ok"
             THEN o
             ELSE FactorsLoop(n, sieve, i + 1, Append(acc, <<sieve[i], o.val>>))
    ELSE FactorsLoop(n, sieve, i + 1, acc)

prime_factors(n) == FactorsLoop(n, prime_sieve(n), 1, <<>>)

\* ---------------------------------------------------- middle_school_gcd
\* variant: the larger of the two exponents is pushed
CommonExponentMax(ea, eb) == Max(ea, eb)

\* the exponent pushed for a prime common to both factorisations
CommonExponent(ea, eb) == Min(ea, eb)

\* the two-index intersection loop (indices are 1-based here)
RECURSIVE IntersectLoop(_, _, _, _, _)
IntersectLoop(fa, fb, ia, ib, acc) ==
    IF ~(ia <= Len(fa) /\ ib <= Len(fb))
    THEN acc
    ELSE IF fa[ia][1] = fb[ib][1]
    THEN IntersectLoop(fa, fb, ia + 1, ib + 1,
                       Append(acc, <<fa[ia][1], CommonExponent(fa[ia][2], fb[ib][2])>>))
    ELSE IF fa[ia][1] > fb[ib][1]
    THEN IntersectLoop(fa, fb, ia, ib + 1, acc)
    ELSE IntersectLoop(fa, fb, ia + 1, ib, acc)

\* fold(1, |acc, (prime, exponent)| acc * prime.pow(exponent))
RECURSIVE FoldProduct(_, _, _)
FoldProduct(s, i, acc) ==
    IF i > Len(s)
    THEN acc
    ELSE FoldProduct(s, i + 1, acc * (s[i][1] ^ s[i][2]))

middle_school_gcd(a, b) ==
    LET factors_a == prime_factors(a)
        factors_b == prime_factors(b)
    IN  IF factors_a.tag # "Ok"
        THEN factors_a
        ELSE IF factors_b.tag # "Ok"
        THEN factors_b
        ELSE Ok(FoldProduct(IntersectLoop(factors_a.seq, factors_b.seq, 1, 1, <<>>),
                            1, 1))

\* --------------------------------------------------- gcd_with_algorithm
\* i64::abs overflows on the most negative value
AbsOverflows(x) == x = I64Min

\* variant: the operand is reinterpreted without taking its absolute value
AsU64WithoutAbs(x) == AsU64(x)

\* x.abs() as u64, on a build where the overflow wraps
AbsAsU64(x) == AsU64(IF x = I64Min THEN I64Min ELSE Magnitude(x))

\* the match on algo: the function each selector's arm calls
Callee(algo) ==
    CASE algo = "Euclid" -> "euclid_gcd"
      [] algo = "Consecutive" -> "middle_school_gcd"
      [] algo = "Middle" -> "middle_school_gcd"

\* the call made by the selected arm, on the normalised operands
Invoke(f, ua, ub) ==
    CASE f = "euclid_gcd" -> euclid_gcd(AsI64(ua), AsI64(ub))
      [] f = "consecutive_gcd" -> consecutive_gcd(ua, ub)
      [] f = "middle_school_gcd" -> middle_school_gcd(ua, ub)

gcd_with_algorithm(a, b, algo) ==
    IF build = "debug" /\ (AbsOverflows(a) \/ AbsOverflows(b))
    THEN Panic
    ELSE LET ua == AbsAsU64(a)
             ub == AbsAsU64(b)
         IN  IF ua = 0 /\ ub = 0
             THEN ErrUndefined
             ELSE IF ua = 0 \/ ub = 0
             THEN Ok(Max(ua, ub))
             ELSE Invoke(Callee(algo), ua, ub)

\* the functions the dispatcher has called by the time the call ends:
\* none when the normalisation panics or a zero case returns early
DispatchTrace(a, b, algo) ==
    IF build = "debug" /\ (AbsOverflows(a) \/ AbsOverflows(b))
    THEN <<>>
    ELSE IF AbsAsU64(a) = 0 \/ AbsAsU64(b) = 0
    THEN <<>>
    ELSE <<Callee(algo)>>

\* ------------------------------------------------------------------ gcd
gcd(a, b) ==
    LET euclid == gcd_with_algorithm(a, b, "Euclid")
        consecutive == gcd_with_algorithm(a, b, "Consecutive")
        middle == gcd_with_algorithm(a, b, "Middle")
    IN  IF euclid.tag = "Panic"
        THEN euclid
        ELSE IF consecutive.tag = "Panic"
        THEN consecutive
        ELSE IF middle.tag = "Panic"
        THEN middle
        ELSE IF euclid # consecutive \/ euclid # middle
        THEN ErrMismatch
        ELSE euclid

\* the functions called through the dispatcher by gcd's three runs, in
\* order; a run that panics ends the call
GcdTrace(a, b) ==
    LET euclid == gcd_with_algorithm(a, b, "Euclid")
        consecutive == gcd_with_algorithm(a, b, "Consecutive")
    IN  DispatchTrace(a, b, "Euclid")
        \o (IF euclid.tag = "Panic"
            THEN <<>>
            ELSE DispatchTrace(a, b, "Consecutive")
                 \o (IF consecutive.tag = "Panic"
                     THEN <<>>
                     ELSE DispatchTrace(a, b, "Middle")))

\* ------------------------------------------------------- state machine
Call(f, a, b, algo) == [fn |-> f, a |-> a, b |-> b, algo |-> algo]

Init ==
    /\ build \in Builds
    /\ pc = "idle"
    /\ call = Call("none", 0, 0, "none")
    /\ ret = NoRet
    /\ dispatched = <<>>

Finish(c, r, d) ==
    /\ pc' = "done"
    /\ call' = c
    /\ ret' = r
    /\ dispatched' = d
    /\ UNCHANGED build

Gcd ==
    /\ pc = "idle"
    /\ \E a \in I64, b \in I64 :
           Finish(Call("gcd", a, b, "none"), gcd(a, b), GcdTrace(a, b))

GcdWithAlgorithm ==
    /\ pc = "idle"
    /\ \E a \in I64, b \in I64, algo \in GcdAlgorithms :
           Finish(Call("gcd_with_algorithm", a, b, algo), gcd_with_algorithm(a, b, algo),
                  DispatchTrace(a, b, algo))

EuclidGcd ==
    /\ pc = "idle"
    /\ \E a \in I64, b \in I64 :
           Finish(Call("euclid_gcd", a, b, "none"), euclid_gcd(a, b), <<>>)

ConsecutiveGcd ==
    /\ pc = "idle"
    /\ \E a \in U64, b \in U64 :
           Finish(Call("consecutive_gcd", a, b, "none"), consecutive_gcd(a, b), <<>>)

MiddleSchoolGcd ==
    /\ pc = "idle"
    /\ \E a \in U64, b \in U64 :
           Finish(Call("middle_school_gcd", a, b, "none"), middle_school_gcd(a, b), <<>>)

PrimeSieve ==
    /\ pc = "idle"
    /\ \E n \in U64 :
           Finish(Call("prime_sieve", n, 0, "none"), OkSeq(prime_sieve(n)), <<>>)

Occurrences ==
    /\ pc = "idle"
    /\ \E n \in U64, prime \in U64 :
           Finish(Call("occurrences", n, prime, "none"), occurrences(n, prime), <<>>)

PrimeFactors ==
    /\ pc = "idle"
    /\ \E n \in U64 :
           Finish(Call("prime_factors", n, 0, "none"), prime_factors(n), <<>>)

Next ==
    \/ Gcd
    \/ GcdWithAlgorithm
    \/ EuclidGcd
    \/ ConsecutiveGcd
    \/ MiddleSchoolGcd
    \/ PrimeSieve
    \/ Occurrences
    \/ PrimeFactors

Spec == Init /\ [][Next]_vars

TypeOK ==
    /\ build \in Builds
    /\ pc \in {"idle", "done"}
    /\ ret.tag \in {"None", "Ok", "Undefined", "Mismatch", "Panic", "Diverge"}

\* ------------------------------------------------- reference notions
Divides(d, n) == n % d = 0

IsPrime(p) == p >= 2 /\ \A d \in 2 .. (p - 1) : ~Divides(d, p)

\* the greatest common divisor of two naturals that are not both zero
MathGcd(x, y) ==
    CHOOSE d \in 1 .. Max(x, y) :
        /\ Divides(d, x)
        /\ Divides(d, y)
        /\ \A e \in 1 .. Max(x, y) : Divides(e, x) /\ Divides(e, y) => e <= d

RECURSIVE Reconstruct(_)
Reconstruct(factors) ==
    IF factors = <<>>
    THEN 1
    ELSE (Head(factors)[1] ^ Head(factors)[2]) * Reconstruct(Tail(factors))

StrictlyIncreasing(s) == \A i \in 1 .. (Len(s) - 1) : s[i] < s[i + 1]

Returned(f) == pc = "done" /\ call.fn = f

BothZero == call.a = 0 /\ call.b = 0

\* ------------------------------------------------------------ claims

\* C1: for positive a and b, euclid_gcd, consecutive_gcd and
\* middle_school_gcd each return the greatest common divisor of a and b,
\* so the three results are identical.
C1_ThreeAlgorithmsAgree ==
    /\ (Returned("euclid_gcd") \/ Returned("consecutive_gcd")
            \/ Returned("middle_school_gcd"))
       /\ call.a > 0 /\ call.b > 0
       => ret = Ok(MathGcd(call.a, call.b))
    /\ Returned("euclid_gcd") /\ call.a \in 1 .. MaxN /\ call.b \in 1 .. MaxN
       => /\ ret = consecutive_gcd(call.a, call.b)
          /\ ret = middle_school_gcd(call.a, call.b)

C1_Witness ==
    /\ Returned("middle_school_gcd")
    /\ call.a = 12 /\ call.b = 18
    /\ ret = Ok(6)

\* C2: gcd_with_algorithm and gcd fail with the undefined-GCD error if and
\* only if both inputs are zero, and return the magnitude of the non-zero
\* input when exactly one input is zero, for every selector and order.
C2_ZeroHandling ==
    Returned("gcd_with_algorithm") \/ Returned("gcd")
    => /\ (ret = ErrUndefined) <=> BothZero
       /\ call.a # 0 /\ call.b = 0 => ret = Ok(Magnitude(call.a))
       /\ call.a = 0 /\ call.b # 0 => ret = Ok(Magnitude(call.b))

\* C3: gcd returns the mismatch error exactly when the results of the three
\* selectors differ and otherwise that common result; gcd(0,0) is the
\* undefined-GCD error; for inputs not both zero gcd returns the GCD.
C3_CrossCheck ==
    Returned("gcd")
    => LET euclid == gcd_with_algorithm(call.a, call.b, "Euclid")
           consecutive == gcd_with_algorithm(call.a, call.b, "Consecutive")
           middle == gcd_with_algorithm(call.a, call.b, "Middle")
       IN  /\ (ret = ErrMismatch) <=> ~(euclid = consecutive /\ euclid = middle)
           /\ ret # ErrMismatch => ret = euclid
           /\ BothZero => ret = ErrUndefined
           /\ ~BothZero => ret = Ok(MathGcd(Magnitude(call.a), Magnitude(call.b)))

C5_MiddleSchoolZeroUndefined ==
    Returned("middle_school_gcd") /\ (call.a = 0 \/ call.b = 0)
    => ret = ErrUndefined

\* C6: for signed a and b not both zero, euclid_gcd returns the
\* non-negative greatest common divisor of |a| and |b|.
C6_EuclidSigned ==
    Returned("euclid_gcd") /\ ~BothZero
    => ret = Ok(MathGcd(Magnitude(call.a), Magnitude(call.b)))

\* C7: for every signed a and b of the word size, not both zero and
\* including the most negative value, gcd_with_algorithm does not overflow
\* or abort and returns the GCD of the true magnitudes, for every selector.
C7_NormalizationTotal ==
    Returned("gcd_with_algorithm") /\ ~BothZero
    => ret = Ok(MathGcd(Magnitude(call.a), Magnitude(call.b)))

\* C8: prime_sieve(n) is strictly increasing and contains exactly the
\* primes <= n; prime_sieve(0) and prime_sieve(1) are empty.
C8_SieveExact ==
    Returned("prime_sieve")
    => /\ ret.tag = "Ok"
       /\ StrictlyIncreasing(ret.seq)
       /\ {ret.seq[i] : i \in 1 .. Len(ret.seq)} = {p \in 0 .. call.a : IsPrime(p)}
       /\ call.a \in {0, 1} => ret.seq = <<>>

C8_Witness ==
    /\ Returned("prime_sieve")
    /\ call.a = 25
    /\ ret.seq = <<2, 3, 5, 7, 11, 13, 17, 19, 23>>

\* C9: for n >= 2, prime_factors(n) is a sequence of (prime, exponent)
\* pairs with strictly increasing primes, every exponent >= 1, and the
\* product of prime^exponent over the sequence equals n.
C9_FactorsRoundTrip ==
    Returned("prime_factors") /\ call.a >= 2
    => /\ ret.tag = "Ok"
       /\ \A i \in 1 .. Len(ret.seq) : IsPrime(ret.seq[i][1]) /\ ret.seq[i][2] >= 1
       /\ StrictlyIncreasing([i \in 1 .. Len(ret.seq) |-> ret.seq[i][1]])
       /\ Reconstruct(ret.seq) = call.a

C9_Witness ==
    /\ Returned("prime_factors")
    /\ call.a = 60
    /\ ret.seq = <<<<2, 2>>, <<3, 1>>, <<5, 1>>>>

\* C10: for n >= 1 and prime >= 2, occurrences(n, prime) fails fatally and
\* returns no value when prime does not divide n, and otherwise returns the
\* largest e >= 1 such that prime^e divides n.
C10_OccurrencesContract ==
    Returned("occurrences") /\ call.a >= 1 /\ call.b >= 2
    => IF ~Divides(call.b, call.a)
       THEN ret = Panic
       ELSE /\ ret.tag = "Ok"
            /\ ret.val >= 1
            /\ Divides(call.b ^ ret.val, call.a)
            /\ ~Divides(call.b ^ (ret.val + 1), call.a)

C10_Witness ==
    /\ Returned("occurrences")
    /\ call.a = 60 /\ call.b = 7
    /\ ret = Panic

\* the function that carries the selector's name
Namesake(algo) ==
    CASE algo = "Euclid" -> "euclid_gcd"
      [] algo = "Consecutive" -> "consecutive_gcd"
      [] algo = "Middle" -> "middle_school_gcd"

\* both operands are non-zero and the normalisation has completed
NormalizedNonZero ==
    /\ call.a # 0 /\ call.b # 0
    /\ ~(build = "debug" /\ (AbsOverflows(call.a) \/ AbsOverflows(call.b)))

\* C11: when both normalized inputs are non-zero, gcd_with_algorithm runs
\* the algorithm named by the selector and no other (Euclid runs euclid_gcd,
\* Consecutive runs consecutive_gcd, Middle runs middle_school_gcd), so the
\* cross-check of gcd compares the outputs of three distinct algorithms.
C11_DispatchBySelector ==
    /\ Returned("gcd_with_algorithm") /\ NormalizedNonZero
       => dispatched = <<Namesake(call.algo)>>
    /\ Returned("gcd") /\ NormalizedNonZero
       => /\ Len(dispatched) = Cardinality(GcdAlgorithms)
          /\ \A i, j \in 1 .. Len(dispatched) : i # j => dispatched[i] # dispatched[j]

====
